---- MODULE Spec2Model ----
(***************************************************************************)
(* Daily usage ledger and quota enforcement of the image-processing        *)
(* backend: DailyUsage (processing/models.py), User.subscription and       *)
(* User.daily_limits (accounts/models.py), Subscription and                *)
(* SubscriptionPlan (subscriptions/models.py), me_view and                 *)
(* RegisterView.post (accounts/views.py).                                  *)
(***************************************************************************)
EXTENDS Integers, Sequences, FiniteSets, TLC

(* ------------------------------ bounds -------------------------------- *)
NumHandlers == 3      \* concurrent request handlers (the concurrency degree k)
MaxDay == 1           \* calendar dates 0..MaxDay
InstantsPerDay == 2   \* clock readings told apart within one calendar date
MaxRequests == 2      \* requests started in one behaviour of Spec
MaxRaceRequests == 5  \* requests started in one behaviour of SpecRecord
MaxLimit == 1         \* finite plan limits 0..MaxLimit
MaxUnlimitedUses == 2 \* uses of one bucket that SpecSerial explores under an unlimited plan
MaxDelta == 1         \* SpecLedger's initial counters lie within MaxDelta of 0 or under a free ceiling

(* ------------------------- program constants -------------------------- *)
MIN_PASSWORD_LENGTH == 8
FREE_PLAN_DAYS == 365
FREE_BACKGROUND_REMOVAL == 10
FREE_IMAGE_UPSCALING == 5
FREE_IMAGE_TRANSFORM == 20
UNLIMITED == -1

Users == {"u1", "u2"}
\* the user whose requests are interleaved; the other one only owns subscription rows
Requesters == {"u1"}
Handlers == 1..NumHandlers
Dates == 0..MaxDay

\* operation type strings a caller may pass; the last one is recognised by nothing
OperationTypes ==
    {"background-removal", "image-upscaling", "text-watermark", "crop-resize",
     "super-resolution"}

Buckets == {"background-removal", "image-upscaling", "image-transform"}

STATUS_CHOICES == {"active", "inactive", "cancelled", "past_due", "unpaid"}

\* SubscriptionPlan.monthly_processing_limit is a nullable integer: <<>> is None, <<n>> is n
None == <<>>
PlanLimits == {None} \cup {<<n>> : n \in 0..MaxLimit}

VARIABLES
    users,          \* table users: the e-mail addresses of the stored User rows
    plans,          \* table subscription plans: the catalog's SubscriptionPlan rows
    now,            \* the clock, timezone.now(): instants since the start of day 0
    subscriptions,  \* table subscriptions, in created_at order
    daily_usage,    \* table daily_usage, in insertion order (position = primary key)
    pc,             \* pc[h]: where handler h is in its request
    req,            \* req[h]: the request handler h serves
    usage,          \* usage[h]: handler h's in-memory DailyUsage object, or NoRow
    ret,            \* the value the last completed request returned to its caller
    started         \* requests started so far

vars == <<users, plans, now, subscriptions, daily_usage, pc, req, usage, ret, started>>

\* timezone.now().date(): the calendar date of the clock
today == now \div InstantsPerDay


(* ------------------------------ data ---------------------------------- *)
\* a Subscription row with the plan it references (subscriptions/models.py)
SubscriptionRows ==
    [user : Users, status : STATUS_CHOICES,
     plan : [monthly_processing_limit : PlanLimits]]

\* a DailyUsage row as created by get_or_create(user=..., date=...): counters default to 0
NewDailyUsage(id, user, date) ==
    [id |-> id, user |-> user, date |-> date,
     background_removal_count |-> 0, image_upscaling_count |-> 0,
     text_watermark_count |-> 0, crop_resize_count |-> 0]

\* Subscription.current_period_end, an instant of the clock: from the start of day 0
\* to the end of the last day
PeriodEnds == 0..((MaxDay + 1) * InstantsPerDay)

\* a Subscription row with its validity window
DatedSubscriptionRows ==
    [user : Users, status : STATUS_CHOICES,
     plan : [monthly_processing_limit : PlanLimits],
     current_period_end : PeriodEnds]

\* Subscription.is_active: status == 'active' and current_period_end > timezone.now()
is_active(self) == self.status = "active" /\ self.current_period_end > now

NoSubscription == [none |-> TRUE]
NoRow == [none |-> TRUE]
NoReturn == [kind |-> "none"]

(* ------------------------- accounts/models.py ------------------------- *)
\* (a filter that forgets the status)
ActiveSubscriptions_AnyStatus(user) ==
    {i \in DOMAIN subscriptions : subscriptions[i].user = user}

\* self.subscriptions.filter(status='active'): primary keys of the user's active rows
ActiveSubscriptions(user) ==
    {i \in DOMAIN subscriptions :
        subscriptions[i].user = user /\ subscriptions[i].status = "active"}

\* (a resolver that applies the validity window: the newest row that is_active)
subscription_IsActive(user) ==
    IF {i \in ActiveSubscriptions(user) : is_active(subscriptions[i])} = {}
    THEN NoSubscription
    ELSE subscriptions[CHOOSE i \in ActiveSubscriptions(user) :
                          /\ is_active(subscriptions[i])
                          /\ \A j \in ActiveSubscriptions(user) :
                                is_active(subscriptions[j]) => j <= i]

\* User.subscription: .first() under Meta.ordering = ['-created_at'], the newest active row
subscription(user) ==
    IF ActiveSubscriptions(user) = {} THEN NoSubscription
    ELSE subscriptions[CHOOSE i \in ActiveSubscriptions(user) :
                          \A j \in ActiveSubscriptions(user) : j <= i]

(* ------------------------ processing/models.py ------------------------ *)
Bucket(used, limit) == [used |-> used, limit |-> limit]

\* (a limit table that treats the plan limit as one budget shared by the buckets:
\* each bucket's ceiling is what the other buckets have left of it)
get_limits_dict_Pooled(self) ==
    LET sub == subscription(self.user)
        transform == self.text_watermark_count + self.crop_resize_count
        total_used == self.background_removal_count + self.image_upscaling_count
                        + self.text_watermark_count + self.crop_resize_count
        used == [b \in Buckets |->
                    CASE b = "background-removal" -> self.background_removal_count
                      [] b = "image-upscaling" -> self.image_upscaling_count
                      [] b = "image-transform" -> transform]
    IN  IF sub = NoSubscription
        THEN [b \in Buckets |->
                Bucket(used[b],
                       CASE b = "background-removal" -> FREE_BACKGROUND_REMOVAL
                         [] b = "image-upscaling" -> FREE_IMAGE_UPSCALING
                         [] b = "image-transform" -> FREE_IMAGE_TRANSFORM)]
        ELSE IF sub.plan.monthly_processing_limit = None
        THEN [b \in Buckets |-> Bucket(used[b], UNLIMITED)]
        ELSE [b \in Buckets |->
                Bucket(used[b],
                       sub.plan.monthly_processing_limit[1] - (total_used - used[b]))]

\* (a limit table whose image-transform bucket counts watermarks only)
get_limits_dict_WatermarkOnly(self) ==
    LET sub == subscription(self.user)
        used == [b \in Buckets |->
                    CASE b = "background-removal" -> self.background_removal_count
                      [] b = "image-upscaling" -> self.image_upscaling_count
                      [] b = "image-transform" -> self.text_watermark_count]
    IN  IF sub = NoSubscription
        THEN [b \in Buckets |->
                Bucket(used[b],
                       CASE b = "background-removal" -> FREE_BACKGROUND_REMOVAL
                         [] b = "image-upscaling" -> FREE_IMAGE_UPSCALING
                         [] b = "image-transform" -> FREE_IMAGE_TRANSFORM)]
        ELSE IF sub.plan.monthly_processing_limit = None
        THEN [b \in Buckets |-> Bucket(used[b], UNLIMITED)]
        ELSE [b \in Buckets |-> Bucket(used[b], sub.plan.monthly_processing_limit[1])]

\* DailyUsage.get_limits_dict
get_limits_dict(self) ==
    LET sub == subscription(self.user)
        transform == self.text_watermark_count + self.crop_resize_count
    IN  IF sub = NoSubscription
        THEN [b \in Buckets |->
                CASE b = "background-removal" ->
                        Bucket(self.background_removal_count, FREE_BACKGROUND_REMOVAL)
                  [] b = "image-upscaling" ->
                        Bucket(self.image_upscaling_count, FREE_IMAGE_UPSCALING)
                  [] b = "image-transform" ->
                        Bucket(transform, FREE_IMAGE_TRANSFORM)]
        ELSE IF sub.plan.monthly_processing_limit = None
        THEN [b \in Buckets |->
                CASE b = "background-removal" ->
                        Bucket(self.background_removal_count, UNLIMITED)
                  [] b = "image-upscaling" ->
                        Bucket(self.image_upscaling_count, UNLIMITED)
                  [] b = "image-transform" ->
                        Bucket(transform, UNLIMITED)]
        ELSE [b \in Buckets |->
                CASE b = "background-removal" ->
                        Bucket(self.background_removal_count,
                               sub.plan.monthly_processing_limit[1])
                  [] b = "image-upscaling" ->
                        Bucket(self.image_upscaling_count,
                               sub.plan.monthly_processing_limit[1])
                  [] b = "image-transform" ->
                        Bucket(transform, sub.plan.monthly_processing_limit[1])]

\* (a chain without the final else: whatever is not a background removal reads the
\* upscaling bucket)
BucketOf_NoTransform(processing_type) ==
    IF processing_type = "background-removal" THEN "background-removal"
    ELSE "image-upscaling"

\* the if / elif / else of DailyUsage.can_process: the bucket a processing type reads
BucketOf(processing_type) ==
    IF processing_type = "background-removal" THEN "background-removal"
    ELSE IF processing_type = "image-upscaling" THEN "image-upscaling"
    ELSE "image-transform"

\* (an admission test that lets used reach limit + 1)
can_process_OffByOne(self, processing_type) ==
    LET limits == get_limits_dict(self)
        limit == limits[BucketOf(processing_type)].limit
        used == limits[BucketOf(processing_type)].used
    IN  limit = UNLIMITED \/ used <= limit

\* (an admission test that forgets the -1 sentinel)
can_process_NoSentinel(self, processing_type) ==
    LET limits == get_limits_dict(self)
        limit == limits[BucketOf(processing_type)].limit
        used == limits[BucketOf(processing_type)].used
    IN  used < limit

\* DailyUsage.can_process
can_process(self, processing_type) ==
    LET limits == get_limits_dict(self)
        limit == limits[BucketOf(processing_type)].limit
        used == limits[BucketOf(processing_type)].used
    IN  limit = UNLIMITED \/ used < limit

\* (a chain whose crop-resize branch raises the watermark counter)
increment_usage_CopyPaste(self, processing_type) ==
    IF processing_type = "background-removal"
    THEN [self EXCEPT !.background_removal_count = @ + 1]
    ELSE IF processing_type = "image-upscaling"
    THEN [self EXCEPT !.image_upscaling_count = @ + 1]
    ELSE IF processing_type \in {"text-watermark", "crop-resize"}
    THEN [self EXCEPT !.text_watermark_count = @ + 1]
    ELSE self

\* (a chain that ends in an else, as can_process does: any other type counts as a
\* watermark)
increment_usage_FallThrough(self, processing_type) ==
    IF processing_type = "background-removal"
    THEN [self EXCEPT !.background_removal_count = @ + 1]
    ELSE IF processing_type = "image-upscaling"
    THEN [self EXCEPT !.image_upscaling_count = @ + 1]
    ELSE IF processing_type = "crop-resize"
    THEN [self EXCEPT !.crop_resize_count = @ + 1]
    ELSE [self EXCEPT !.text_watermark_count = @ + 1]

\* DailyUsage.increment_usage, the in-memory part: the object after the if / elif chain
increment_usage(self, processing_type) ==
    IF processing_type = "background-removal"
    THEN [self EXCEPT !.background_removal_count = @ + 1]
    ELSE IF processing_type = "image-upscaling"
    THEN [self EXCEPT !.image_upscaling_count = @ + 1]
    ELSE IF processing_type = "text-watermark"
    THEN [self EXCEPT !.text_watermark_count = @ + 1]
    ELSE IF processing_type = "crop-resize"
    THEN [self EXCEPT !.crop_resize_count = @ + 1]
    ELSE self

\* self.save() at the end of increment_usage: an UPDATE of every column of the row
\* whose primary key is self.id
save(table, self) == [table EXCEPT ![self.id] = self]

(* ---------------- DailyUsage.objects.get_or_create -------------------- *)
\* (a lookup that forgets the date)
Matching_IgnoreDate(table, user, date) ==
    {i \in DOMAIN table : table[i].user = user}

\* the rows get(user=user, date=date) finds
Matching(table, user, date) ==
    {i \in DOMAIN table : table[i].user = user /\ table[i].date = date}

\* (a table without the unique constraint)
UniqueViolation_NoConstraint(table, user, date) == FALSE

\* unique_together = ['user', 'date']: an INSERT of a second row raises IntegrityError
UniqueViolation(table, user, date) == Matching(table, user, date) # {}

Fetch(table, user, date) == table[CHOOSE i \in Matching(table, user, date) : TRUE]

\* (a create that keeps one row per user and resets it for the new date)
Insert_Reuse(table, user, date) ==
    IF \E i \in DOMAIN table : table[i].user = user
    THEN [i \in DOMAIN table |->
            IF table[i].user = user THEN NewDailyUsage(i, user, date) ELSE table[i]]
    ELSE Append(table, NewDailyUsage(Len(table) + 1, user, date))

Insert(table, user, date) == Append(table, NewDailyUsage(Len(table) + 1, user, date))

\* get_or_create run without interruption: get(), else create(), else get() again
get_or_create(table, user, date) ==
    IF Matching(table, user, date) # {}
    THEN [usage |-> Fetch(table, user, date), created |-> FALSE, table |-> table]
    ELSE [usage |-> NewDailyUsage(Len(table) + 1, user, date), created |-> TRUE,
          table |-> Insert(table, user, date)]

(* ------------------------- initial states ----------------------------- *)
\* the subscriptions table: no row, or one row of some user, status and plan
SubscriptionTables == {<<>>} \cup {<<s>> : s \in SubscriptionRows}

\* the users and the catalog behind a subscriptions table: the owners of its rows
\* exist, and so do the plans its rows reference
InitCatalog ==
    /\ users = Users
    /\ plans = {subscriptions[i].plan : i \in DOMAIN subscriptions}

InitHandlers ==
    /\ pc = [h \in Handlers |-> "idle"]
    /\ req = [h \in Handlers |-> NoReturn]
    /\ usage = [h \in Handlers |-> NoRow]
    /\ ret = NoReturn
    /\ started = 0

\* the state after the schema is created: no ledger row yet; the requester has no
\* subscription row, or an active one on any plan
Init ==
    /\ now = 0
    /\ subscriptions \in
            {t \in SubscriptionTables :
                \A i \in DOMAIN t : /\ t[i].user \in Requesters
                                    /\ t[i].status = "active"}
    /\ daily_usage = <<>>
    /\ InitCatalog
    /\ InitHandlers

(* ------------------- request handlers, step by step ------------------- *)
Request(kind, user, date, processing_type) ==
    [kind |-> kind, user |-> user, date |-> date, processing_type |-> processing_type]

\* what a handler does with the DailyUsage object get_or_create handed it, once
\* get_limits_dict has read the subscription:
\* "limits" returns usage.get_limits_dict() (User.daily_limits);
\* "process" evaluates usage.can_process(type) and goes on only when admitted
Loaded(h, r, row) ==
    IF r.kind = "limits"
    THEN /\ pc' = [pc EXCEPT ![h] = "idle"]
         /\ req' = [req EXCEPT ![h] = NoReturn]
         /\ usage' = [usage EXCEPT ![h] = NoRow]
         /\ ret' =
                [kind |-> "limits", user |-> r.user, date |-> r.date,
                 limits |-> get_limits_dict(row)]
    ELSE IF can_process(row, r.processing_type)
    THEN /\ pc' = [pc EXCEPT ![h] = "admitted"]
         /\ req' = [req EXCEPT ![h] = r]
         /\ usage' = [usage EXCEPT ![h] = row]
         /\ UNCHANGED ret
    ELSE /\ pc' = [pc EXCEPT ![h] = "idle"]
         /\ req' = [req EXCEPT ![h] = NoReturn]
         /\ usage' = [usage EXCEPT ![h] = NoRow]
         /\ ret' =
                [kind |-> "check", user |-> r.user, date |-> r.date,
                 processing_type |-> r.processing_type, result |-> FALSE]

\* today = timezone.now().date() and the get() of get_or_create: the SELECT on
\* daily_usage hands the handler its in-memory copy of the row, or finds nothing
\* (idle workers are interchangeable: the first idle one takes the request)
Begin(h, r, cap) ==
    /\ pc[h] = "idle"
    /\ \A g \in Handlers : pc[g] = "idle" => h <= g
    /\ started < cap
    /\ started' = started + 1
    /\ req' = [req EXCEPT ![h] = r]
    /\ UNCHANGED <<now, users, plans, subscriptions, daily_usage, ret>>
    /\ IF Matching(daily_usage, r.user, r.date) # {}
       THEN /\ pc' = [pc EXCEPT ![h] = "loaded"]
            /\ usage' = [usage EXCEPT ![h] = Fetch(daily_usage, r.user, r.date)]
       ELSE /\ pc' = [pc EXCEPT ![h] = "create"]
            /\ usage' = [usage EXCEPT ![h] = NoRow]

\* a request that reads user.daily_limits (me_view, LoginView.post, RegisterView.post)
DailyLimitsRequest(h, user) ==
    Begin(h, Request("limits", user, today, "none"), MaxRequests)

\* a processing request: today's row is loaded and can_process decides admission
ProcessRequest(h, user, processing_type) ==
    Begin(h, Request("process", user, today, processing_type), MaxRequests)

\* the create() of get_or_create after get() found nothing: the INSERT, or on
\* IntegrityError the second get(); either way the handler now holds its copy of
\* the row
Create(h) ==
    /\ pc[h] = "create"
    /\ pc' = [pc EXCEPT ![h] = "loaded"]
    /\ UNCHANGED <<now, users, plans, subscriptions, req, ret, started>>
    /\ IF UniqueViolation(daily_usage, req[h].user, req[h].date)
       THEN /\ UNCHANGED daily_usage
            /\ usage' = [usage EXCEPT ![h] = Fetch(daily_usage, req[h].user, req[h].date)]
       ELSE /\ daily_usage' = Insert(daily_usage, req[h].user, req[h].date)
            /\ usage' = [usage EXCEPT ![h] =
                            NewDailyUsage(Len(daily_usage) + 1, req[h].user, req[h].date)]

\* usage.get_limits_dict() on the copy the handler holds, called by User.daily_limits
\* and by can_process: it reads self.user.subscription and the subscription's plan
\* (tables no step of a request writes) and the handler returns, or goes on admitted.
\* The counters it reports are those of the copy, whatever has been saved since.
GetLimitsDict(h) ==
    /\ pc[h] = "loaded"
    /\ Loaded(h, req[h], usage[h])
    /\ UNCHANGED <<now, users, plans, subscriptions, daily_usage, started>>

\* the recording half loads the row again by (user, date) before it increments
Refetch(h) ==
    /\ pc[h] = "admitted"
    /\ pc' = [pc EXCEPT ![h] = "refetched"]
    /\ usage' = [usage EXCEPT ![h] = Fetch(daily_usage, req[h].user, req[h].date)]
    /\ UNCHANGED <<now, users, plans, subscriptions, daily_usage, req, ret, started>>

\* usage.increment_usage(type): the counter of the in-memory object is raised and
\* the object saved
IncrementUsage(h) ==
    /\ pc[h] \in {"admitted", "refetched"}
    /\ daily_usage' = save(daily_usage, increment_usage(usage[h], req[h].processing_type))
    /\ pc' = [pc EXCEPT ![h] = "idle"]
    /\ req' = [req EXCEPT ![h] = NoReturn]
    /\ usage' = [usage EXCEPT ![h] = NoRow]
    /\ ret' =
            [kind |-> "record", user |-> req[h].user, date |-> req[h].date,
             processing_type |-> req[h].processing_type]
    /\ UNCHANGED <<now, users, plans, subscriptions, started>>

\* midnight: the clock reads the start of the next day
Tick ==
    /\ today < MaxDay
    /\ now' = (today + 1) * InstantsPerDay
    /\ UNCHANGED <<users, plans, subscriptions, daily_usage, pc, req, usage, ret, started>>

\* the clock moves on by one instant, within the day or over midnight
Advance ==
    /\ now + 1 < (MaxDay + 1) * InstantsPerDay
    /\ now' = now + 1
    /\ UNCHANGED <<users, plans, subscriptions, daily_usage, pc, req, usage, ret, started>>

Next ==
    \/ \E h \in Handlers, user \in Requesters : DailyLimitsRequest(h, user)
    \/ \E h \in Handlers, user \in Requesters, t \in OperationTypes :
            ProcessRequest(h, user, t)
    \/ \E h \in Handlers : Create(h)
    \/ \E h \in Handlers : GetLimitsDict(h)
    \/ \E h \in Handlers : Refetch(h)
    \/ \E h \in Handlers : IncrementUsage(h)
    \/ Tick

Spec == Init /\ [][Next]_vars

(* ------ NumHandlers requests for one operation racing on a bucket ----- *)
\* today's ledger as requests served one after another leave it: absent, or holding
\* counts that are within the limit of every bucket
RaceRows ==
    {[id |-> 1, user |-> u, date |-> 0,
      background_removal_count |-> br, image_upscaling_count |-> iu,
      text_watermark_count |-> tw, crop_resize_count |-> cr] :
        u \in Requesters, br \in 0..MaxLimit, iu \in 0..MaxLimit,
        tw \in 0..MaxLimit, cr \in 0..MaxLimit}

InitRace ==
    /\ now = 0
    /\ subscriptions \in
            {t \in SubscriptionTables :
                \A i \in DOMAIN t : /\ t[i].user \in Requesters
                                    /\ t[i].status \in {"active", "cancelled"}}
    /\ daily_usage \in
            {<<>>} \cup
            {<<row>> : row \in
                {r \in RaceRows :
                    \A b \in Buckets :
                        get_limits_dict(r)[b].limit # UNLIMITED =>
                            get_limits_dict(r)[b].used <= get_limits_dict(r)[b].limit}}
    /\ InitCatalog
    /\ InitHandlers

\* every request of the race is for the operation of the requests before it
SameOperation(processing_type) ==
    /\ \A g \in Handlers : req[g] # NoReturn => req[g].processing_type = processing_type
    /\ ret.kind \in {"check", "record"} => ret.processing_type = processing_type

\* one of the NumHandlers racing requests
RaceRequest(h, user, processing_type) ==
    /\ SameOperation(processing_type)
    /\ Begin(h, Request("process", user, today, processing_type), NumHandlers)

NextRace ==
    \/ \E h \in Handlers, user \in Requesters, t \in OperationTypes :
            RaceRequest(h, user, t)
    \/ \E h \in Handlers : Create(h)
    \/ \E h \in Handlers : GetLimitsDict(h)
    \/ \E h \in Handlers : Refetch(h)
    \/ \E h \in Handlers : IncrementUsage(h)

SpecRace == InitRace /\ [][NextRace]_vars

(* --------- the same handlers recording recognised operations ---------- *)
\* two recognised operation types that are stored in different counters of the row
RecordTypes == {"text-watermark", "crop-resize"}

RecordRequest(h, user, processing_type) ==
    Begin(h, Request("process", user, today, processing_type), MaxRaceRequests)

NextRecord ==
    \/ \E h \in Handlers, user \in Requesters, t \in RecordTypes :
            RecordRequest(h, user, t)
    \/ \E h \in Handlers : Create(h)
    \/ \E h \in Handlers : GetLimitsDict(h)
    \/ \E h \in Handlers : Refetch(h)
    \/ \E h \in Handlers : IncrementUsage(h)

SpecRecord == Init /\ [][NextRecord]_vars

(* ------- the three entry points, one call at a time, on any row ------- *)
SmallCounts == 0..MaxDelta
\* counter values at the start of a day's ledger and just under a free-tier ceiling
CountsNear(ceiling) == SmallCounts \cup {n \in (ceiling - MaxDelta)..ceiling : n >= 0}

LedgerRows ==
    {[id |-> 1, user |-> u, date |-> 0,
      background_removal_count |-> br, image_upscaling_count |-> iu,
      text_watermark_count |-> tw, crop_resize_count |-> cr] :
        u \in Requesters,
        br \in CountsNear(FREE_BACKGROUND_REMOVAL),
        iu \in CountsNear(FREE_IMAGE_UPSCALING),
        tw \in CountsNear(FREE_IMAGE_TRANSFORM),
        cr \in SmallCounts}

\* today's ledger is absent or holds any counters; any subscription table
InitLedger ==
    /\ now = 0
    /\ subscriptions \in SubscriptionTables
    /\ daily_usage \in {<<>>} \cup {<<row>> : row \in LedgerRows}
    /\ InitCatalog
    /\ InitHandlers

\* GetLimits(user): User.daily_limits
GetLimits(user) ==
    LET got == get_or_create(daily_usage, user, today)
    IN  /\ daily_usage' = got.table
        /\ ret' = [kind |-> "limits", user |-> user, date |-> today,
                   limits |-> get_limits_dict(got.usage)]
        /\ UNCHANGED <<now, users, plans, subscriptions, pc, req, usage, started>>

\* CanProcess(user, type): today's row, then DailyUsage.can_process
CanProcess(user, processing_type) ==
    LET got == get_or_create(daily_usage, user, today)
    IN  /\ daily_usage' = got.table
        /\ ret' = [kind |-> "check", user |-> user, date |-> today,
                   processing_type |-> processing_type,
                   result |-> can_process(got.usage, processing_type)]
        /\ UNCHANGED <<now, users, plans, subscriptions, pc, req, usage, started>>

\* the counters the model lets grow: those still in the initial ranges
Growable(row, processing_type) ==
    /\ processing_type = "background-removal" =>
            row.background_removal_count \in CountsNear(FREE_BACKGROUND_REMOVAL)
    /\ processing_type = "image-upscaling" =>
            row.image_upscaling_count \in CountsNear(FREE_IMAGE_UPSCALING)
    /\ processing_type = "text-watermark" =>
            row.text_watermark_count \in CountsNear(FREE_IMAGE_TRANSFORM)
    /\ processing_type = "crop-resize" => row.crop_resize_count \in SmallCounts

\* RecordUsage(user, type): today's row, then DailyUsage.increment_usage
RecordUsage(user, processing_type) ==
    LET got == get_or_create(daily_usage, user, today)
    IN  /\ Growable(got.usage, processing_type)
        /\ daily_usage' = save(got.table, increment_usage(got.usage, processing_type))
        /\ ret' = [kind |-> "record", user |-> user, date |-> today,
                   processing_type |-> processing_type]
        /\ UNCHANGED <<now, users, plans, subscriptions, pc, req, usage, started>>

NextLedger ==
    \/ \E user \in Requesters : GetLimits(user)
    \/ \E user \in Requesters, t \in OperationTypes : CanProcess(user, t)
    \/ \E user \in Requesters, t \in OperationTypes : RecordUsage(user, t)

SpecLedger == InitLedger /\ [][NextLedger]_vars

(* ------------- whole requests, one at a time, from day start ---------- *)
\* a processing request served alone: today's row, can_process, and only when it
\* admitted, increment_usage on the same row (under an unlimited plan the model
\* stops exploring a bucket at MaxUnlimitedUses)
Process(user, processing_type) ==
    LET got == get_or_create(daily_usage, user, today)
        bucket == get_limits_dict(got.usage)[BucketOf(processing_type)]
    IN  /\ bucket.limit = UNLIMITED => bucket.used < MaxUnlimitedUses
        /\ IF can_process(got.usage, processing_type)
           THEN /\ daily_usage' = save(got.table, increment_usage(got.usage, processing_type))
                /\ ret' = [kind |-> "record", user |-> user, date |-> today,
                           processing_type |-> processing_type]
           ELSE /\ daily_usage' = got.table
                /\ ret' = [kind |-> "check", user |-> user, date |-> today,
                           processing_type |-> processing_type, result |-> FALSE]
        /\ UNCHANGED <<now, users, plans, subscriptions, pc, req, usage, started>>

NextSerial == \E user \in Requesters, t \in OperationTypes : Process(user, t)

\* the start of a day: no ledger row yet; the requester has no subscription row, an
\* active one or a cancelled one, on any plan
InitSerial ==
    /\ now = 0
    /\ subscriptions \in
            {t \in SubscriptionTables :
                \A i \in DOMAIN t : /\ t[i].user \in Requesters
                                    /\ t[i].status \in {"active", "cancelled"}}
    /\ daily_usage = <<>>
    /\ InitCatalog
    /\ InitHandlers

SpecSerial == InitSerial /\ [][NextSerial]_vars

(* ------------- me_view on subscriptions with validity windows --------- *)
\* the subscriptions table: up to two rows of any user, status, plan and period end
DatedSubscriptionTables ==
    {<<>>} \cup {<<s>> : s \in DatedSubscriptionRows}
           \cup {<<s, t>> : s \in DatedSubscriptionRows, t \in DatedSubscriptionRows}

InitAccount ==
    /\ now = 0
    /\ subscriptions \in DatedSubscriptionTables
    /\ daily_usage = <<>>
    /\ InitCatalog
    /\ InitHandlers

\* me_view: subscription = user.subscription, then the response with the
\* subscription's status and expiry and user.daily_limits
MeView(user) ==
    LET sub == subscription(user)
        got == get_or_create(daily_usage, user, today)
    IN  /\ daily_usage' = got.table
        /\ ret' = [kind |-> "me", user |-> user, date |-> today,
                   subscription |-> sub,
                   status |-> IF sub # NoSubscription THEN sub.status ELSE "inactive",
                   expiresAt |-> IF sub # NoSubscription
                                 THEN <<sub.current_period_end>> ELSE None,
                   dailyLimits |-> get_limits_dict(got.usage)]
        /\ UNCHANGED <<now, users, plans, subscriptions, pc, req, usage, started>>

NextAccount ==
    \/ \E user \in Requesters : MeView(user)
    \/ Advance

SpecAccount == InitAccount /\ [][NextAccount]_vars

(* -------------------------- RegisterView.post ------------------------- *)
\* text is a sequence of characters
Contains(text, c) == \E i \in DOMAIN text : text[i] = c

\* str.lower() on the alphabet of the requests below, whose one upper-case letter is A
lower(text) == [i \in DOMAIN text |-> IF text[i] = "A" THEN "a" ELSE text[i]]

\* str.strip(): leading and trailing blanks removed
RECURSIVE strip(_)
strip(text) ==
    IF text = <<>> THEN text
    ELSE IF Head(text) = " " THEN strip(Tail(text))
    ELSE IF text[Len(text)] = " " THEN strip(SubSeq(text, 1, Len(text) - 1))
    ELSE text

\* the e-mail address of a user stored before the first request
StoredEmail == <<"a", "@", "b", ".", "c">>

\* request fields: absent, malformed, known (in another spelling) and new e-mail
\* addresses; absent, short and sufficient passwords; absent, blank and given names
Emails ==
    {<<>>, <<"a">>, <<"a", "@", "b">>, StoredEmail,
     <<" ", "A", "@", "b", ".", "c">>, <<"d", "@", "b", ".", "c">>}

Passwords ==
    {<<>>, [i \in 1..(MIN_PASSWORD_LENGTH - 1) |-> "p"], [i \in 1..MIN_PASSWORD_LENGTH |-> "p"]}

Names == {<<>>, <<" ">>, <<"n">>}

\* what json.loads(request.body) does with a body: "undecodable" bytes are not
\* UTF-8 (UnicodeDecodeError), "malformed" text is not JSON (json.JSONDecodeError),
\* an "array" is JSON but has no .get (AttributeError), an "object" has the three
\* fields, each a string, absent ones read as ''
Bodies ==
    {[json |-> k] : k \in {"undecodable", "malformed", "array"}} \cup
    {[json |-> "object", email |-> e, password |-> p, name |-> n] :
        e \in Emails, p \in Passwords, n \in Names}

\* SubscriptionPlan rows of two of the PLAN_TYPES; name is unique
PlanRows == [name : {"free", "pro"}, monthly_processing_limit : PlanLimits]

Catalogs ==
    {c \in SUBSET PlanRows : \A p, q \in c : p.name = q.name => p = q}

\* a deployment with any catalog, the seeded 'free' plan present or not, and no user
\* or one user, who has no subscription or one on a plan of the catalog
InitRegister ==
    /\ now = 0
    /\ plans \in Catalogs
    /\ users \in {{}, {StoredEmail}}
    /\ subscriptions \in
            {<<>>} \cup
            {<<[user |-> u, status |-> st, plan |-> p,
                current_period_end |-> (MaxDay + 1) * InstantsPerDay]>> :
                u \in users, st \in {"active", "cancelled"}, p \in plans}
    /\ daily_usage = <<>>
    /\ InitHandlers

JsonResponse(status, email) == [kind |-> "register", status |-> status, email |-> email]

\* the response and the tables when post returns before User.objects.create_user
Rejected(status, email) ==
    /\ ret' = JsonResponse(status, email)
    /\ UNCHANGED <<users, plans, now, subscriptions, daily_usage, pc, req, usage, started>>

\* (a manager that accepts the call and stores the row: the statements after
\* create_user then run, each ORM call committing on its own, and an exception of
\* SubscriptionPlan.objects.get(name='free') is answered with 500)
Registered_Stored(email) ==
    /\ users' = users \cup {email}
    /\ UNCHANGED <<plans, now, pc, req, usage, started>>
    /\ IF {p \in plans : p.name = "free"} = {}
       THEN /\ ret' = JsonResponse(500, email)
            /\ UNCHANGED <<subscriptions, daily_usage>>
       ELSE LET free_plan == CHOOSE p \in plans : p.name = "free"
                got == get_or_create(daily_usage, email, today)
            IN  /\ subscriptions' =
                       Append(subscriptions,
                              [user |-> email, status |-> "active", plan |-> free_plan,
                               current_period_end |-> now + FREE_PLAN_DAYS * InstantsPerDay])
                /\ daily_usage' = got.table
                /\ ret' =
                       [kind |-> "register", status |-> 200, email |-> email,
                        subscription |->
                           [plan |-> subscription(email)'.plan.name,
                            status |-> subscription(email)'.status,
                            expiresAt |-> subscription(email)'.current_period_end],
                        dailyLimits |-> get_limits_dict(got.usage)']

\* RegisterView.post from User.objects.create_user on. User sets username = None and
\* declares no manager, so User.objects is the UserManager of AbstractUser, whose
\* create_user(self, username, email=None, password=None, **extra_fields) has a
\* required username: the call with email, password and name raises TypeError before
\* any row is written, "except Exception" answers 500, and the statements after the
\* call never run.
Registered(email) == Rejected(500, email)

\* RegisterView.post
RegisterViewPost(body) ==
    IF body.json = "malformed"
    THEN \* except json.JSONDecodeError
         Rejected(400, <<>>)
    ELSE IF body.json \in {"undecodable", "array"}
    THEN \* except Exception
         Rejected(500, <<>>)
    ELSE LET email == strip(lower(body.email))
             password == body.password
             name == strip(body.name)
         IN  IF email = <<>> \/ password = <<>> \/ name = <<>>
             THEN Rejected(400, email)
             ELSE IF ~Contains(email, "@") \/ ~Contains(email, ".")
             THEN Rejected(400, email)
             ELSE IF email \in users
             THEN Rejected(409, email)
             ELSE IF Len(password) < MIN_PASSWORD_LENGTH
             THEN Rejected(400, email)
             ELSE Registered(email)

NextRegister ==
    \/ \E body \in Bodies : RegisterViewPost(body)
    \/ Advance

SpecRegister == InitRegister /\ [][NextRegister]_vars

(* ====================== properties of the ledger ====================== *)
\* the bucket the specification assigns to an operation type
ClaimBucket(t) ==
    CASE t = "background-removal" -> "background-removal"
      [] t = "image-upscaling" -> "image-upscaling"
      [] OTHER -> "image-transform"

Recognized == {"background-removal", "image-upscaling", "text-watermark", "crop-resize"}

\* the stored rows of a (user, date) key
RowsOf(table, user, date) ==
    {table[i] : i \in {j \in DOMAIN table : table[j].user = user /\ table[j].date = date}}

\* the row of a key as a call finds it: the stored one, or the fresh one it will create
RowAt(table, user, date) ==
    IF RowsOf(table, user, date) = {}
    THEN NewDailyUsage(Len(table) + 1, user, date)
    ELSE CHOOSE row \in RowsOf(table, user, date) : TRUE

Counters(row) ==
    <<row.background_removal_count, row.image_upscaling_count,
      row.text_watermark_count, row.crop_resize_count>>

HasStatusActive(user) ==
    \E i \in DOMAIN subscriptions :
        subscriptions[i].user = user /\ subscriptions[i].status = "active"

\* the user's active subscription is on a plan with this monthly_processing_limit
ActivePlanLimit(user, limit) ==
    \E i \in DOMAIN subscriptions :
        /\ subscriptions[i].user = user
        /\ subscriptions[i].status = "active"
        /\ subscriptions[i].plan.monthly_processing_limit = limit

\* C1: can_process returns false exactly when the mapped bucket has limit # -1 and
\* used >= limit, and true otherwise, for every row, subscription state and type.
C1_CanProcessExact ==
    ret.kind = "check" =>
        \E row \in RowsOf(daily_usage, ret.user, ret.date) :
            LET b == get_limits_dict(row)[ClaimBucket(ret.processing_type)]
            IN  ret.result = ~(b.limit # -1 /\ b.used >= b.limit)

\* a check denied at used = limit
C1_Witness ==
    /\ ret.kind = "check"
    /\ ~ret.result
    /\ \E row \in RowsOf(daily_usage, ret.user, ret.date) :
            LET b == get_limits_dict(row)[ClaimBucket(ret.processing_type)]
            IN  b.used = b.limit /\ b.limit = FREE_IMAGE_TRANSFORM

\* C2: for a user with no subscription of status active (none at all included),
\* the limit table is exactly the three buckets with limits 10, 5 and 20.
C2_FreeTierLimits ==
    (ret.kind = "limits" /\ ~HasStatusActive(ret.user)) =>
        /\ DOMAIN ret.limits = {"background-removal", "image-upscaling", "image-transform"}
        /\ ret.limits["background-removal"].limit = 10
        /\ ret.limits["image-upscaling"].limit = 5
        /\ ret.limits["image-transform"].limit = 20

\* the limit table of a user whose only subscription is past due, on a finite plan
C2_Witness ==
    /\ ret.kind = "limits"
    /\ \E i \in DOMAIN subscriptions :
            /\ subscriptions[i].user = ret.user
            /\ subscriptions[i].status = "past_due"
            /\ subscriptions[i].plan.monthly_processing_limit = <<1>>
    /\ \E row \in RowsOf(daily_usage, ret.user, ret.date) :
            row.background_removal_count > 0

\* C3: under an active plan with finite limit N every bucket's limit is N, and
\* usage recorded in one bucket changes neither the limit nor the admission result
\* of another bucket.
C3_FlatPerBucketLimit ==
    [][\A n \in 0..MaxLimit :
        (ret'.kind # "none" /\ ActivePlanLimit(ret'.user, <<n>>)) =>
            /\ ret'.kind = "limits" => \A b \in Buckets : ret'.limits[b].limit = n
            /\ ret'.kind = "record" =>
                LET before == RowAt(daily_usage, ret'.user, ret'.date)
                    after == RowAt(daily_usage', ret'.user, ret'.date)
                IN  \A t \in OperationTypes :
                        ClaimBucket(t) # ClaimBucket(ret'.processing_type) =>
                            /\ get_limits_dict(after)[ClaimBucket(t)]
                                    = get_limits_dict(before)[ClaimBucket(t)]
                            /\ get_limits_dict(after)[ClaimBucket(t)].limit = n
                            /\ can_process(after, t) = can_process(before, t)]_vars

\* a recorded background removal that exhausts its bucket while upscaling is unused
C3_Witness ==
    /\ ret.kind = "record"
    /\ ret.processing_type = "background-removal"
    /\ ActivePlanLimit(ret.user, <<1>>)
    /\ \E row \in RowsOf(daily_usage, ret.user, ret.date) :
            /\ row.background_removal_count >= 1
            /\ row.image_upscaling_count = 0

\* C4: under an active plan whose limit is None every bucket's limit is -1, used is
\* the actual count, and can_process admits every operation type.
C4_UnlimitedPlan ==
    (ret.kind # "none" /\ ActivePlanLimit(ret.user, None)) =>
        /\ ret.kind = "limits" =>
            \E row \in RowsOf(daily_usage, ret.user, ret.date) :
                /\ \A b \in Buckets : ret.limits[b].limit = -1
                /\ ret.limits["background-removal"].used = row.background_removal_count
                /\ ret.limits["image-upscaling"].used = row.image_upscaling_count
                /\ ret.limits["image-transform"].used =
                        row.text_watermark_count + row.crop_resize_count
        /\ ret.kind = "check" => ret.result

\* an admission on an unlimited plan with more uses than any free ceiling
C4_Witness ==
    /\ ret.kind = "check"
    /\ ret.result
    /\ ActivePlanLimit(ret.user, None)
    /\ \E row \in RowsOf(daily_usage, ret.user, ret.date) :
            /\ row.background_removal_count > FREE_BACKGROUND_REMOVAL
            /\ ret.processing_type = "background-removal"

\* C5: one increment_usage(op) raises the counter named op by exactly 1 and leaves
\* the other three unchanged; for any other op all four are unchanged; the row is
\* stored either way.
C5_IncrementFrame ==
    [][ret'.kind = "record" =>
        LET before == RowAt(daily_usage, ret'.user, ret'.date)
            t == ret'.processing_type
        IN  \E after \in RowsOf(daily_usage', ret'.user, ret'.date) :
                /\ after.background_removal_count = before.background_removal_count
                        + (IF t = "background-removal" THEN 1 ELSE 0)
                /\ after.image_upscaling_count = before.image_upscaling_count
                        + (IF t = "image-upscaling" THEN 1 ELSE 0)
                /\ after.text_watermark_count = before.text_watermark_count
                        + (IF t = "text-watermark" THEN 1 ELSE 0)
                /\ after.crop_resize_count = before.crop_resize_count
                        + (IF t = "crop-resize" THEN 1 ELSE 0)]_vars

\* a recorded crop-resize
C5_Witness ==
    /\ ret.kind = "record"
    /\ ret.processing_type = "crop-resize"
    /\ \E row \in RowsOf(daily_usage, ret.user, ret.date) : row.crop_resize_count > 0

\* C6 as stated: for an unrecognized type, can_process reads the image-transform
\* bucket and increment_usage raises that bucket's used count.
C6_UnrecognizedCountsAsTransform ==
    [][/\ (ret'.kind = "check" /\ ret'.processing_type \notin Recognized) =>
            \E row \in RowsOf(daily_usage', ret'.user, ret'.date) :
                LET b == get_limits_dict(row)["image-transform"]
                IN  ret'.result = (b.limit = -1 \/ b.used < b.limit)
       /\ (ret'.kind = "record" /\ ret'.processing_type \notin Recognized) =>
            get_limits_dict(RowAt(daily_usage', ret'.user, ret'.date))["image-transform"].used
                = get_limits_dict(RowAt(daily_usage, ret'.user, ret'.date))["image-transform"].used
                    + 1]_vars

\* C6 amended: for an unrecognized type, can_process reads the image-transform
\* bucket, and increment_usage changes no counter, so no bucket's used count rises.
C6_UnrecognizedAdmittedNotCounted ==
    [][(ret'.kind \in {"check", "record"} /\ ret'.processing_type \notin Recognized) =>
        /\ ret'.kind = "check" =>
            \E row \in RowsOf(daily_usage', ret'.user, ret'.date) :
                LET b == get_limits_dict(row)["image-transform"]
                IN  ret'.result = (b.limit = -1 \/ b.used < b.limit)
        /\ ret'.kind = "record" =>
            /\ Counters(RowAt(daily_usage', ret'.user, ret'.date))
                    = Counters(RowAt(daily_usage, ret'.user, ret'.date))
            /\ \A b \in Buckets :
                get_limits_dict(RowAt(daily_usage', ret'.user, ret'.date))[b].used
                    = get_limits_dict(RowAt(daily_usage, ret'.user, ret'.date))[b].used]_vars

\* a recorded "super-resolution" on a row that has image-transform uses
C6_Witness ==
    /\ ret.kind = "record"
    /\ ret.processing_type = "super-resolution"
    /\ \E row \in RowsOf(daily_usage, ret.user, ret.date) :
            row.text_watermark_count + row.crop_resize_count > 0

\* C12: in every branch of the limit table, used of image-transform is
\* text_watermark_count + crop_resize_count and used of the other two buckets is
\* their own counter; a check of a watermark or crop-resize is admitted when that sum
\* is under the limit; and one recorded watermark or crop-resize raises
\* image-transform used by exactly 1 and leaves the other two buckets' used unchanged.
C12_TransformBucketSums ==
    [][/\ ret'.kind = "limits" =>
            \E row \in RowsOf(daily_usage', ret'.user, ret'.date) :
                /\ ret'.limits["image-transform"].used =
                        row.text_watermark_count + row.crop_resize_count
                /\ ret'.limits["background-removal"].used = row.background_removal_count
                /\ ret'.limits["image-upscaling"].used = row.image_upscaling_count
       /\ (ret'.kind = "check" /\ ret'.processing_type \in {"text-watermark", "crop-resize"}) =>
            \E row \in RowsOf(daily_usage', ret'.user, ret'.date) :
                LET limit == get_limits_dict(row)["image-transform"].limit
                IN  (limit # -1 /\ row.text_watermark_count + row.crop_resize_count < limit)
                        => ret'.result
       /\ (ret'.kind = "record" /\ ret'.processing_type \in {"text-watermark", "crop-resize"}) =>
            LET before == get_limits_dict(RowAt(daily_usage, ret'.user, ret'.date))
                after == get_limits_dict(RowAt(daily_usage', ret'.user, ret'.date))
                row == RowAt(daily_usage', ret'.user, ret'.date)
            IN  /\ after["image-transform"].used = before["image-transform"].used + 1
                /\ after["image-transform"].used =
                        row.text_watermark_count + row.crop_resize_count
                /\ after["background-removal"].used = before["background-removal"].used
                /\ after["image-upscaling"].used = before["image-upscaling"].used]_vars

\* a recorded crop-resize on a row that also holds watermarks, under a finite plan
C12_Witness ==
    /\ ret.kind = "record"
    /\ ret.processing_type = "crop-resize"
    /\ ActivePlanLimit(ret.user, <<1>>)
    /\ \E row \in RowsOf(daily_usage, ret.user, ret.date) :
            /\ row.text_watermark_count >= 1
            /\ row.crop_resize_count >= 1
            /\ get_limits_dict(row)["image-transform"].used =
                    row.text_watermark_count + row.crop_resize_count

\* C15: when requests run one at a time, the entitlement is fixed and
\* increment_usage(op) follows only a can_process(op) that returned true on the same
\* row, every bucket of every stored row whose limit is not -1 has used <= limit:
\* on the free tier (10, 5, 20) and under any finite plan limit, 0 included.
C15_SerialNeverOverLimit ==
    \A i \in DOMAIN daily_usage : \A b \in Buckets :
        LET l == get_limits_dict(daily_usage[i])[b]
        IN  l.limit # -1 => l.used <= l.limit

\* a free-tier day on which all three buckets were filled to 10, 5 and 20 and the
\* next request was refused
C15_Witness ==
    /\ ret.kind = "check"
    /\ ~ret.result
    /\ \E row \in RowsOf(daily_usage, ret.user, ret.date) :
            /\ get_limits_dict(row)["background-removal"] = Bucket(10, 10)
            /\ get_limits_dict(row)["image-upscaling"] = Bucket(5, 5)
            /\ get_limits_dict(row)["image-transform"] = Bucket(20, 20)
            /\ row.crop_resize_count > 0
            /\ row.text_watermark_count > 0

(* ================= properties of concurrent handlers ================== *)
\* C7: no stored counter is ever lower than a value it held before, under any
\* interleaving of handlers that load the row, increment their copy and save it.
C7_CountersNeverDecrease ==
    [][\A i \in DOMAIN daily_usage :
        /\ daily_usage'[i].background_removal_count >= daily_usage[i].background_removal_count
        /\ daily_usage'[i].image_upscaling_count >= daily_usage[i].image_upscaling_count
        /\ daily_usage'[i].text_watermark_count >= daily_usage[i].text_watermark_count
        /\ daily_usage'[i].crop_resize_count >= daily_usage[i].crop_resize_count]_vars

\* the watermark and crop-resize uses stored in a table
RECURSIVE RecordedUses(_)
RecordedUses(table) ==
    IF table = <<>> THEN 0
    ELSE Head(table).text_watermark_count + Head(table).crop_resize_count
            + RecordedUses(Tail(table))

\* C14: no recorded use is lost. When every started recording of a watermark or a
\* crop-resize has completed (all of them admitted: the user is on the free tier or
\* an unlimited plan), the stored counters hold one use per completed call, under
\* any interleaving of the calls.
C14_NoRecordedUseLost ==
    (/\ \A h \in Handlers : pc[h] = "idle"
     /\ \A u \in Requesters : \A n \in 0..MaxLimit : ~ActivePlanLimit(u, <<n>>))
        => RecordedUses(daily_usage) = started

\* C8: with k = NumHandlers concurrent requests for the same user and operation,
\* each a check followed by an increment, all may pass the check and all increment,
\* but a bucket with a finite limit L never holds more than L + k - 1 uses.
C8_OvershootBound ==
    \A i \in DOMAIN daily_usage : \A b \in Buckets :
        LET l == get_limits_dict(daily_usage[i])[b]
        IN  l.limit # -1 => l.used <= l.limit + NumHandlers - 1

\* all NumHandlers requests passed the check under plan limit 1 and all incremented:
\* the bucket holds 1 + NumHandlers - 1 uses
C8_Witness ==
    /\ started = NumHandlers
    /\ \A h \in Handlers : pc[h] = "idle"
    /\ ret.kind = "record"
    /\ ret.processing_type = "crop-resize"
    /\ ActivePlanLimit(ret.user, <<1>>)
    /\ \E row \in RowsOf(daily_usage, ret.user, ret.date) :
            /\ get_limits_dict(row)["image-transform"].limit = 1
            /\ row.crop_resize_count = NumHandlers
            /\ get_limits_dict(row)["image-transform"].used = 1 + NumHandlers - 1

\* C9: at most one row per (user, date); a handler whose INSERT loses ends up
\* holding the one stored row of its key.
C9_OneRowPerUserDate ==
    /\ \A u \in Users, d \in Dates :
            Cardinality({i \in DOMAIN daily_usage :
                            daily_usage[i].user = u /\ daily_usage[i].date = d}) <= 1
    /\ \A h \in Handlers :
            usage[h] # NoRow =>
                /\ usage[h].id \in DOMAIN daily_usage
                /\ daily_usage[usage[h].id].user = req[h].user
                /\ daily_usage[usage[h].id].date = req[h].date
                /\ usage[h].user = req[h].user
                /\ usage[h].date = req[h].date

\* two handlers found no row; one has inserted and holds it, the other is about to
\* run its INSERT
C9_Witness ==
    \E g, h \in Handlers :
        /\ pc[h] = "create"
        /\ pc[g] = "admitted"
        /\ req[g].user = req[h].user
        /\ req[g].date = req[h].date
        /\ usage[g].id = Len(daily_usage)

\* C13: a ledger row, once stored, is stored in every later state under the same
\* (user, date) and primary key; a row enters the table only by a create, one at a
\* time, with all four counters 0; after that only the recording step of a request
\* for its (user, date) changes it.
C13_RowLifecycle ==
    [][/\ Len(daily_usage') >= Len(daily_usage)
       /\ \A i \in DOMAIN daily_usage :
            /\ i \in DOMAIN daily_usage'
            /\ daily_usage'[i].id = daily_usage[i].id
            /\ daily_usage'[i].user = daily_usage[i].user
            /\ daily_usage'[i].date = daily_usage[i].date
            /\ daily_usage'[i] # daily_usage[i] =>
                    \E h \in Handlers :
                        /\ pc[h] \in {"admitted", "refetched"}
                        /\ pc'[h] = "idle"
                        /\ req[h].user = daily_usage[i].user
                        /\ req[h].date = daily_usage[i].date
       /\ \A i \in DOMAIN daily_usage' \ DOMAIN daily_usage :
            /\ i = Len(daily_usage) + 1
            /\ Len(daily_usage') = Len(daily_usage) + 1
            /\ Counters(daily_usage'[i]) = <<0, 0, 0, 0>>
            /\ RowsOf(daily_usage, daily_usage'[i].user, daily_usage'[i].date) = {}
            /\ \E h \in Handlers : pc[h] = "create" /\ pc'[h] # "create"]_vars

\* the first day's row, created and incremented, is still stored after the second
\* day's row has been created and incremented
C13_Witness ==
    /\ today = 1
    /\ ret.kind = "record"
    /\ ret.date = 1
    /\ \E row \in RowsOf(daily_usage, ret.user, 0) : Counters(row) # <<0, 0, 0, 0>>
    /\ \E row \in RowsOf(daily_usage, ret.user, 1) : Counters(row) # <<0, 0, 0, 0>>

\* C10: limits and admission for a date come from the copy of the row of that date
\* that the request loaded, which is the stored row at the time of the load and
\* starts with four zero counters whatever other dates' rows hold; only a request
\* for a row's own date changes a row.
C10_DayRollover ==
    [][/\ \A i \in DOMAIN daily_usage :
            daily_usage'[i] # daily_usage[i] =>
                \E h \in Handlers :
                    /\ pc[h] \in {"admitted", "refetched"}
                    /\ pc'[h] = "idle"
                    /\ req[h].date = daily_usage[i].date
                    /\ daily_usage'[i].date = daily_usage[i].date
       /\ Len(daily_usage') > Len(daily_usage) =>
            /\ Len(daily_usage') = Len(daily_usage) + 1
            /\ Counters(daily_usage'[Len(daily_usage')]) = <<0, 0, 0, 0>>
            /\ \E h \in Handlers :
                    /\ pc[h] = "create"
                    /\ daily_usage'[Len(daily_usage')].date = req[h].date
       /\ \A h \in Handlers :
            (usage'[h] # NoRow /\ usage[h] = NoRow) =>
                /\ usage'[h].date = req'[h].date
                /\ usage'[h] \in RowsOf(daily_usage', req'[h].user, req'[h].date)
                /\ RowsOf(daily_usage, req'[h].user, req'[h].date) = {} =>
                        Counters(usage'[h]) = <<0, 0, 0, 0>>
       /\ \A h \in Handlers :
            (pc[h] = "loaded" /\ pc'[h] # "loaded") =>
                /\ usage[h].date = req[h].date
                /\ req[h].kind = "limits" =>
                        /\ ret'.kind = "limits"
                        /\ ret'.date = req[h].date
                        /\ ret'.limits = get_limits_dict(usage[h])
                /\ req[h].kind = "process" =>
                        (pc'[h] = "admitted") = can_process(usage[h], req[h].processing_type)]_vars

\* on the second day the limits come from a fresh row while the first day's row
\* holds uses
C10_Witness ==
    /\ today = 1
    /\ ret.kind = "limits"
    /\ ret.date = 1
    /\ \A b \in Buckets : ret.limits[b].used = 0
    /\ \E row \in RowsOf(daily_usage, ret.user, 0) : Counters(row) # <<0, 0, 0, 0>>
    /\ \E row \in RowsOf(daily_usage, ret.user, 1) : Counters(row) = <<0, 0, 0, 0>>

(* ==================== properties of the resolver ====================== *)
\* C11: User.subscription returns a row of the user with status active whenever
\* one exists and none otherwise, changes no table, and does not look at
\* current_period_end: a row with status active is returned and sets the limits of
\* get_limits_dict even when its period has ended; a row of any other status never
\* does.
C11_ResolverIgnoresWindow ==
    [][ret'.kind = "me" =>
        LET act == {i \in DOMAIN subscriptions :
                        /\ subscriptions[i].user = ret'.user
                        /\ subscriptions[i].status = "active"}
        IN  /\ subscriptions' = subscriptions
            /\ act = {} =>
                    /\ ret'.subscription = NoSubscription
                    /\ ret'.dailyLimits["background-removal"].limit = FREE_BACKGROUND_REMOVAL
                    /\ ret'.dailyLimits["image-upscaling"].limit = FREE_IMAGE_UPSCALING
                    /\ ret'.dailyLimits["image-transform"].limit = FREE_IMAGE_TRANSFORM
            /\ act # {} =>
                    \E i \in act :
                        /\ ret'.subscription = subscriptions[i]
                        /\ \A b \in Buckets :
                            ret'.dailyLimits[b].limit =
                                IF subscriptions[i].plan.monthly_processing_limit = None
                                THEN -1
                                ELSE subscriptions[i].plan.monthly_processing_limit[1]]_vars

\* me_view answered from a subscription of status active whose period had ended
\* before the day of the request began,
\* while the user's other subscription, past due, is still within its period
C11_Witness ==
    /\ ret.kind = "me"
    /\ ret.date = today
    /\ ret.subscription # NoSubscription
    /\ ret.subscription.status = "active"
    /\ ~is_active(ret.subscription)
    /\ ret.subscription.current_period_end <= ret.date * InstantsPerDay
    /\ ret.subscription.plan.monthly_processing_limit = <<1>>
    /\ \A b \in Buckets : ret.dailyLimits[b].limit = 1
    /\ \E i \in DOMAIN subscriptions :
            /\ subscriptions[i].user = ret.user
            /\ subscriptions[i].status = "past_due"
            /\ subscriptions[i].current_period_end > now
            /\ subscriptions[i].plan.monthly_processing_limit = None

(* =================== properties of the registration =================== *)
\* C16: registration is all-or-nothing. A RegisterView.post that answers 400, 409 or
\* 500 leaves the users table as it was, and one that answers with success leaves
\* the new user with exactly one subscription, of status active, on the free plan.
C16_RegistrationAllOrNothing ==
    [][(ret'.kind = "register" /\ <<users, subscriptions, ret>>' # <<users, subscriptions, ret>>) =>
        /\ ret'.status \in {400, 409, 500} => users' = users
        /\ ret'.status = 200 =>
            /\ ret'.email \in users'
            /\ Cardinality({i \in DOMAIN subscriptions' :
                                subscriptions'[i].user = ret'.email}) = 1
            /\ \A i \in DOMAIN subscriptions' :
                    subscriptions'[i].user = ret'.email =>
                        /\ subscriptions'[i].status = "active"
                        /\ subscriptions'[i].plan.name = "free"]_vars

\* a registration with a new address and valid fields on a catalog without the
\* 'free' plan was answered with 500, and no User row of that address is stored
C16_Witness ==
    /\ ret.kind = "register"
    /\ ret.status = 500
    /\ ret.email = <<"d", "@", "b", ".", "c">>
    /\ ret.email \notin users
    /\ users = {StoredEmail}
    /\ \A p \in plans : p.name # "free"
    /\ plans # {}
    /\ \A i \in DOMAIN subscriptions : subscriptions[i].user # ret.email
====
